---- MODULE Spec2Model ----
(***************************************************************************)
(* The Streamlit music recommender (src/app.py) as a state machine.        *)
(*                                                                         *)
(* One action is one execution of the script from top to bottom, triggered *)
(* by a widget event of the browser session: a plain rerun, a change of    *)
(* the playlist selectbox, or a press of one of the two buttons.           *)
(*                                                                         *)
(* The functions imported from the `recommender` package (lines 6-8, 129)  *)
(* are modelled from their contracts in the design document, sections 4    *)
(* and 6.  A track record {tid, track_name, artist_name} is represented by *)
(* its tid; cover art and audio clip lookups only decorate the display.    *)
(***************************************************************************)
EXTENDS Integers, Sequences, FiniteSets, TLC

VARIABLES
    train_playlists,    \* cached result of load_playlists(): training collection
    embedding_dir,      \* the .npy files of homework5/audio_embeddings (tids, listing order)
    embedding_matrix,   \* cached result of load_embeddings(): rows
    tids,               \* cached result of load_embeddings(): parallel tid sequence
    model_cache,        \* st.cache_resource of load_model: key -> model
    session_state,      \* st.session_state: <<>> or [log |-> ...]
    playlist_idx,       \* value of the selectbox
    tid_to_idx,         \* script globals as left by the last run
    idx_to_tid,
    playlist_tids,
    missing_tids,
    playlist_embedding, \* query vector of the last audio press
    pressed,            \* the button that triggered the last run
    page                \* what the last run displayed

vars == <<train_playlists, embedding_dir, embedding_matrix, tids, model_cache,
          session_state, playlist_idx, tid_to_idx, idx_to_tid, playlist_tids,
          missing_tids, playlist_embedding, pressed, page>>

----------------------------------------------------------------------------
(* Bounds *)

MaxLog == 3        \* presses are disabled once the log holds MaxLog entries
MaxSeed == 2       \* number of random initialisations a WRMF construction may draw

(* Program constants *)

K == 10            \* result count of both tabs (lines 103, 135, 149)
NumFactors == 32   \* default num_factors of load_model (line 51)

----------------------------------------------------------------------------
(* Sequence helpers *)

Range(s) == {s[i] : i \in 1..Len(s)}

Min(a, b) == IF a < b THEN a ELSE b

RECURSIVE Flatten(_)
Flatten(ss) == IF ss = <<>> THEN <<>> ELSE Head(ss) \o Flatten(Tail(ss))

RECURSIVE Dedup(_)
Dedup(s) ==
    IF s = <<>> THEN <<>>
    ELSE LET init == Dedup(SubSeq(s, 1, Len(s) - 1))
             last == s[Len(s)]
         IN IF last \in Range(init) THEN init ELSE Append(init, last)

Dot(a, b) == a[1] * b[1] + a[2] * b[2]

VecAdd(a, b) == <<a[1] + b[1], a[2] + b[2]>>

\* Stable sort of s by the strict order `beats` (a set of pairs): an element
\* comes after every element that beats it and after every earlier element
\* that it does not beat.
StableSort(s, beats) ==
    LET Before(j, i) == <<s[j], s[i]>> \in beats \/ (j < i /\ <<s[i], s[j]>> \notin beats)
        Pos(i) == 1 + Cardinality({j \in 1..Len(s) : j # i /\ Before(j, i)})
    IN [p \in 1..Len(s) |-> s[CHOOSE i \in 1..Len(s) : Pos(i) = p]]

----------------------------------------------------------------------------
(* The data files *)

\* homework5/train_playlists.json: playlists in file order, tracks by tid.
TrainBig == << <<3, 1, 2, 3>>, <<2, 5, 4>>, <<6, 7, 8, 9, 10, 11, 12>> >>
TrainSmall == << <<1, 2>>, <<2, 3>> >>
TrainOptions == {TrainBig, TrainSmall}

\* homework5/test_playlists.json: key -> tracks.  13 and 14 occur in no
\* training playlist.
test_playlists ==
    [k \in {"0", "1", "2", "3"} |->
        CASE k = "0" -> <<1, 2, 13>>
          [] k = "1" -> <<13>>
          [] k = "2" -> <<3, 3, 14, 4>>
          [] k = "3" -> <<4>>]

playlist_keys == <<"0", "1", "2", "3">>

\* homework5/audio_embeddings: the tids that have a .npy file.
DirFull == <<13, 1, 2, 3, 5, 6, 7, 8, 9, 10, 11, 12>>
DirSmall == <<2, 13, 1>>
DirEmpty == <<>>
DirOptions == {DirFull, DirSmall, DirEmpty}

\* Content of <tid>.npy.
EmbVec(t) ==
    CASE t = 1 -> <<1, 0>>
      [] t = 2 -> <<0, 1>>
      [] t = 3 -> <<1, 0>>
      [] t = 5 -> <<2, 1>>
      [] t = 6 -> <<0, 0>>
      [] t = 7 -> <<-1, 0>>
      [] t = 8 -> <<1, 3>>
      [] t = 9 -> <<3, 1>>
      [] t = 10 -> <<0, -2>>
      [] t = 11 -> <<-1, 2>>
      [] t = 12 -> <<2, 2>>
      [] t = 13 -> <<1, 1>>
      [] OTHER -> <<0, 0>>

----------------------------------------------------------------------------
(* recommender.wrmf *)

\* build_interaction_samples: every track seen for the first time gets the
\* next unused dense index; both maps are extended together.
RECURSIVE BuildMaps(_, _, _)
BuildMaps(tracks, t2i, i2t) ==
    IF tracks = <<>> THEN [tid_to_idx |-> t2i, idx_to_tid |-> i2t]
    ELSE LET tid == Head(tracks)
             n == Cardinality(DOMAIN t2i)
         IN IF tid \in DOMAIN t2i
            THEN BuildMaps(Tail(tracks), t2i, i2t)
            ELSE BuildMaps(Tail(tracks), t2i @@ (tid :> n), i2t @@ (n :> tid))

build_interaction_samples(playlists) == BuildMaps(Flatten(playlists), <<>>, <<>>)

\* A WRMF construction draws small random item factors; `seed` stands for the
\* state of the random generator at construction.  Rows have two components.
FactorRow(seed, i) == << ((i * seed + seed) % 3) - 1, ((i + 2 * seed) % 5) - 2 >>

WRMF(num_users, num_items, num_factors, seed) ==
    [num_users |-> num_users, num_items |-> num_items, num_factors |-> num_factors,
     item_factors |-> [i \in 0..(num_items - 1) |-> FactorRow(seed, i)],
     trained |-> FALSE]

----------------------------------------------------------------------------
(* recommender.recommend.generate_recommendations *)

RECURSIVE SumRows(_, _)
SumRows(idxs, rows) ==
    IF idxs = <<>> THEN <<0, 0>>
    ELSE VecAdd(rows[Head(idxs)], SumRows(Tail(idxs), rows))

\* Step 1: the seeds that have an index.
SeedIndices(seed_tids, t2i) ==
    LET InIndex(t) == t \in DOMAIN t2i
        seeds == SelectSeq(seed_tids, InIndex)
    IN [j \in 1..Len(seeds) |-> t2i[seeds[j]]]

\* Steps 2-3: fold-in query = average of the seed rows, score = query . row.
\* The order of the scores is that of (sum of seed rows) . row.
CFScores(query, rows) == [i \in DOMAIN rows |-> Dot(query, rows[i])]

CFBeats(scores) ==
    {ab \in (DOMAIN scores) \X (DOMAIN scores) : scores[ab[1]] > scores[ab[2]]}

\* Step 4: the indexed tracks that are not seeds, by ascending index.
Candidates(n, seed_idx) ==
    LET NotSeed(i) == i \notin Range(seed_idx)
    IN SelectSeq([j \in 1..n |-> j - 1], NotSeed)

\* Step 5.
TopK(ranked, k) == SubSeq(ranked, 1, Min(k, Len(ranked)))

TidsOf(idxs, i2t) == [j \in 1..Len(idxs) |-> i2t[idxs[j]]]

RankFromSeeds(seed_idx, rows, i2t, k) ==
    TidsOf(TopK(StableSort(Candidates(Cardinality(DOMAIN i2t), seed_idx),
                           CFBeats(CFScores(SumRows(seed_idx, rows), rows))), k), i2t)

GenResult(seed_idx, rows, i2t, k) ==
    IF seed_idx = <<>>
    THEN [ok |-> FALSE, recs |-> <<>>]
    ELSE [ok |-> TRUE, recs |-> RankFromSeeds(seed_idx, rows, i2t, k)]

generate_recommendations(model, seed_tids, all_item_embeddings, i2t, t2i, k) ==
    GenResult(SeedIndices(seed_tids, t2i), all_item_embeddings, i2t, k)

----------------------------------------------------------------------------
(* recommender.embeddings *)

get_embeddings(dir) ==
    [embedding_matrix |-> [j \in 1..Len(dir) |-> EmbVec(dir[j])], tids |-> dir]

RECURSIVE SumVecs(_)
SumVecs(ts) == IF ts = <<>> THEN <<0, 0>> ELSE VecAdd(EmbVec(Head(ts)), SumVecs(Tail(ts)))

\* The mean is kept as the exact fraction sum / n.
NoEmbedding == [ok |-> FALSE, sum |-> <<0, 0>>, n |-> 0]

MeanOf(seeds) ==
    IF seeds = <<>> THEN NoEmbedding
    ELSE [ok |-> TRUE, sum |-> SumVecs(seeds), n |-> Len(seeds)]

get_average_audio_embedding(seed_tids, dir) ==
    LET Known(t) == t \in Range(dir)
    IN MeanOf(Dedup(SelectSeq(seed_tids, Known)))

----------------------------------------------------------------------------
(* recommender.recommend.get_similarity *)

Norm2(v) == Dot(v, v)

\* cos(a, q) > cos(b, q) in exact integer arithmetic; a zero-norm vector has
\* similarity 0.  q is the numerator of the query: a positive rescaling of
\* the query does not change the sign or the order of the similarities.
CosGreater(a, b, q) ==
    LET da == IF Norm2(a) = 0 \/ Norm2(q) = 0 THEN 0 ELSE Dot(a, q)
        db == IF Norm2(b) = 0 \/ Norm2(q) = 0 THEN 0 ELSE Dot(b, q)
        na == IF Norm2(a) = 0 THEN 1 ELSE Norm2(a)
        nb == IF Norm2(b) = 0 THEN 1 ELSE Norm2(b)
    IN CASE da >= 0 /\ db < 0 -> TRUE
         [] da < 0 /\ db >= 0 -> FALSE
         [] da >= 0 /\ db >= 0 -> da * da * nb > db * db * na
         [] OTHER -> da * da * nb < db * db * na

CosBeats(matrix, q) ==
    {ab \in (1..Len(matrix)) \X (1..Len(matrix)) :
        CosGreater(matrix[ab[1]], matrix[ab[2]], q)}

\* The rows whose tid is not a seed, in row order.
NonSeedRows(ids, seed_tids) ==
    LET NotSeed(j) == ids[j] \notin Range(seed_tids)
    IN SelectSeq([j \in 1..Len(ids) |-> j], NotSeed)

TidsOfRows(rows, ids) == [j \in 1..Len(rows) |-> ids[rows[j]]]

get_similarity(seed_tids, query, matrix, ids) ==
    TidsOfRows(StableSort(NonSeedRows(ids, seed_tids), CosBeats(matrix, query.sum)), ids)

----------------------------------------------------------------------------
(* src/app.py *)

CF == "Collaborative Filtering"
AUDIO == "Audio Similarity"

\* @st.cache_data load_embeddings (lines 46-48)
load_embeddings(dir) == get_embeddings(dir)

\* load_model without the resource cache: every call constructs a model.
load_model_Uncached(cache, num_users, num_items, seed) ==
    [cache |-> cache, model |-> WRMF(num_users, num_items, NumFactors, seed)]

\* @st.cache_resource load_model (lines 50-54): one construction per key.
load_model(cache, num_users, num_items, seed) ==
    IF <<num_users, num_items, NumFactors>> \in DOMAIN cache
    THEN [cache |-> cache, model |-> cache[<<num_users, num_items, NumFactors>>]]
    ELSE [cache |-> cache @@ (<<num_users, num_items, NumFactors>> :>
                                  WRMF(num_users, num_items, NumFactors, seed)),
          model |-> WRMF(num_users, num_items, NumFactors, seed)]

\* line 68 without the membership test.
PlaylistTids_Unfiltered(playlist, t2i) == playlist

\* line 68
PlaylistTids(playlist, t2i) ==
    LET Indexed(t) == t \in DOMAIN t2i
    IN SelectSeq(playlist, Indexed)

\* line 70
MissingTids(playlist, ids) ==
    LET Missing(t) == t \notin Range(ids)
    IN SelectSeq(playlist, Missing)

\* lines 90-91 without the `not in` guard.
SessionLogInit_Always(sess) == [log |-> <<>>]

\* lines 90-91
SessionLogInit(sess) ==
    IF "log" \notin DOMAIN sess THEN [log |-> <<>>] ELSE sess

\* ranked_tids without the slice.
Top10_NoSlice(ranked_tids) == ranked_tids

\* ranked_tids[:10] (lines 135, 149)
Top10(ranked_tids) == SubSeq(ranked_tids, 1, Min(K, Len(ranked_tids)))

\* The append moved out of the try block.
LogAppend_Always(sess, ok, entry) == [sess EXCEPT !.log = Append(@, entry)]

\* lines 116-122 and 146-152: the append is the last statement of the try
\* block, the except branch only reports.
LogAppend(sess, ok, entry) ==
    IF ok THEN [sess EXCEPT !.log = Append(@, entry)] ELSE sess

NoPage == [stopped |-> FALSE, messages |-> {}, warning |-> <<>>,
           shown |-> FALSE, method |-> "", recs |-> <<>>]

\* lines 104-122: display and log of the CF result, or the error message.
CFShow(sess, sel, cache, out) ==
    [session_state |-> LogAppend(sess, out.ok,
                                 [playlist |-> sel, method |-> CF,
                                  recommendations |-> out.recs]),
     model_cache |-> cache,
     shown |-> out.ok,
     method |-> IF out.ok THEN CF ELSE "",
     recs |-> out.recs,
     messages |-> IF out.ok THEN {} ELSE {"cf_failed"},
     playlist_embedding |-> NoEmbedding]

\* lines 102-103
CFRecommend(sess, sel, lm, ptids, maps) ==
    CFShow(sess, sel, lm.cache,
           generate_recommendations(lm.model, ptids, lm.model.item_factors,
                                    maps.idx_to_tid, maps.tid_to_idx, K))

\* The CF tab when its button is pressed (lines 99-122).
CFHandler(sess, cache, sel, ptids, maps, train, seed) ==
    CFRecommend(sess, sel,
                load_model(cache, Len(train), Cardinality(DOMAIN maps.tid_to_idx), seed),
                ptids, maps)

\* lines 134-152: display and log of the audio result, or the error message.
AudioShow(sess, cache, sel, pe, empty, shown_tids) ==
    [session_state |-> LogAppend(sess, pe.ok /\ ~empty,
                                 [playlist |-> sel, method |-> AUDIO,
                                  recommendations |-> shown_tids]),
     model_cache |-> cache,
     shown |-> pe.ok /\ ~empty,
     method |-> IF pe.ok /\ ~empty THEN AUDIO ELSE "",
     recs |-> shown_tids,
     messages |-> IF ~pe.ok THEN {"audio_failed"}
                  ELSE IF empty THEN {"no_embeddings_for_similarity"} ELSE {},
     playlist_embedding |-> pe]

\* lines 130-135
AudioRank(sess, cache, sel, ptids, pe, matrix, ids) ==
    AudioShow(sess, cache, sel, pe, Len(matrix) = 0,
              IF pe.ok /\ Len(matrix) # 0
              THEN Top10(get_similarity(ptids, pe, matrix, ids))
              ELSE <<>>)

\* The audio tab when its button is pressed (lines 126-152).
AudioHandler(sess, cache, sel, ptids, dir, matrix, ids) ==
    AudioRank(sess, cache, sel, ptids, get_average_audio_embedding(ptids, dir), matrix, ids)

NoHandler(sess, cache) ==
    [session_state |-> sess, model_cache |-> cache, shown |-> FALSE, method |-> "",
     recs |-> <<>>, messages |-> {}, playlist_embedding |-> NoEmbedding]

\* lines 59-61: st.error, st.stop
StoppedRun(sess, cache, sel) ==
    [session_state |-> sess, model_cache |-> cache, playlist_idx |-> sel,
     tid_to_idx |-> <<>>, idx_to_tid |-> <<>>, playlist_tids |-> <<>>,
     missing_tids |-> <<>>, playlist_embedding |-> NoEmbedding, pressed |-> "none",
     page |-> [NoPage EXCEPT !.stopped = TRUE, !.messages = {"no_embeddings"}]]

\* The state a complete run leaves.
ScriptPage(sel, ev, maps, ptids, miss, h) ==
    [session_state |-> h.session_state, model_cache |-> h.model_cache,
     playlist_idx |-> sel,
     tid_to_idx |-> maps.tid_to_idx, idx_to_tid |-> maps.idx_to_tid,
     playlist_tids |-> ptids, missing_tids |-> miss,
     playlist_embedding |-> h.playlist_embedding, pressed |-> ev,
     page |-> [stopped |-> FALSE,
               messages |-> h.messages \cup
                            (IF miss # <<>> THEN {"missing_embeddings"} ELSE {}),
               warning |-> miss,
               shown |-> h.shown, method |-> h.method, recs |-> h.recs]]

\* lines 93-152: the two tabs.
ScriptTabs(sess, cache, sel, ev, seed, train, dir, matrix, ids, maps, ptids, miss) ==
    ScriptPage(sel, ev, maps, ptids, miss,
               CASE ev = "cf" -> CFHandler(sess, cache, sel, ptids, maps, train, seed)
                 [] ev = "audio" -> AudioHandler(sess, cache, sel, ptids, dir, matrix, ids)
                 [] OTHER -> NoHandler(sess, cache))

\* lines 65-91
ScriptBody(sess, cache, sel, ev, seed, train, dir, matrix, ids, maps) ==
    ScriptTabs(SessionLogInit(sess), cache, sel, ev, seed, train, dir, matrix, ids, maps,
               PlaylistTids(test_playlists[sel], maps.tid_to_idx),
               MissingTids(test_playlists[sel], ids))

\* One execution of the script.  ev is the button that triggered it ("cf",
\* "audio" or "none"), sel the selectbox value, seed the random state a model
\* construction would use.
Script(sess, cache, sel, ev, seed, train, dir, matrix, ids) ==
    IF Len(matrix) = 0
    THEN StoppedRun(sess, cache, sel)
    ELSE ScriptBody(sess, cache, sel, ev, seed, train, dir, matrix, ids,
                    build_interaction_samples(train))

----------------------------------------------------------------------------
(* The state machine *)

Seeds == 1..MaxSeed

Install(r) ==
    /\ session_state' = r.session_state
    /\ model_cache' = r.model_cache
    /\ playlist_idx' = r.playlist_idx
    /\ tid_to_idx' = r.tid_to_idx
    /\ idx_to_tid' = r.idx_to_tid
    /\ playlist_tids' = r.playlist_tids
    /\ missing_tids' = r.missing_tids
    /\ playlist_embedding' = r.playlist_embedding
    /\ pressed' = r.pressed
    /\ page' = r.page
    /\ UNCHANGED <<train_playlists, embedding_dir, embedding_matrix, tids>>

Run(sel, ev, seed) ==
    Install(Script(session_state, model_cache, sel, ev, seed,
                   train_playlists, embedding_dir, embedding_matrix, tids))

FirstRun(r) ==
    /\ session_state = r.session_state
    /\ model_cache = r.model_cache
    /\ playlist_idx = r.playlist_idx
    /\ tid_to_idx = r.tid_to_idx
    /\ idx_to_tid = r.idx_to_tid
    /\ playlist_tids = r.playlist_tids
    /\ missing_tids = r.missing_tids
    /\ playlist_embedding = r.playlist_embedding
    /\ pressed = r.pressed
    /\ page = r.page

Loaded(train, dir, emb) ==
    /\ train_playlists = train
    /\ embedding_dir = dir
    /\ embedding_matrix = emb.embedding_matrix
    /\ tids = emb.tids
    /\ FirstRun(Script(<<>>, <<>>, playlist_keys[1], "none", 1, train, dir,
                       emb.embedding_matrix, emb.tids))

\* First page load of the process: the caches are filled, the selectbox
\* shows its first option.
Init ==
    \E train \in TrainOptions, dir \in DirOptions : Loaded(train, dir, load_embeddings(dir))

LogRoom == "log" \in DOMAIN session_state /\ Len(session_state.log) < MaxLog

\* A rerun without a widget change (e.g. an expander is toggled).
Rerun == Run(playlist_idx, "none", 1)

SelectPlaylist ==
    /\ ~page.stopped
    /\ \E k \in DOMAIN test_playlists : k # playlist_idx /\ Run(k, "none", 1)

PressCF ==
    /\ ~page.stopped
    /\ LogRoom
    /\ \E seed \in Seeds : Run(playlist_idx, "cf", seed)

PressAudio ==
    /\ ~page.stopped
    /\ LogRoom
    /\ Run(playlist_idx, "audio", 1)

Next == Rerun \/ SelectPlaylist \/ PressCF \/ PressAudio

Spec == Init /\ [][Next]_vars

----------------------------------------------------------------------------
(* Properties *)

Log == IF "log" \in DOMAIN session_state THEN session_state.log ELSE <<>>

Distinct(seq) == \A i, j \in 1..Len(seq) : i # j => seq[i] # seq[j]

\* The tracks of test playlist k that have a CF index.
FilteredSeeds(k) == {t \in Range(test_playlists[k]) : t \in DOMAIN tid_to_idx}

\* The tracks of test playlist k that have an audio embedding.
EmbeddedTracks(k) == {t \in Range(test_playlists[k]) : t \in Range(tids)}

GoodList(recs, seeds) ==
    /\ Len(recs) <= K
    /\ Distinct(recs)
    /\ Range(recs) \cap seeds = {}

\* C1: every displayed and every logged recommendation list has at most K = 10
\* entries, pairwise distinct, none of them in the filtered seed set
\* (playlist_tids) of its playlist.
C1_AtMostKDistinctNoSeed ==
    /\ page.shown => GoodList(page.recs, Range(playlist_tids))
    /\ \A i \in 1..Len(Log) :
          GoodList(Log[i].recommendations, FilteredSeeds(Log[i].playlist))

\* An audio press whose candidate pool was larger than K, cut to K entries.
C1_Witness ==
    /\ page.shown /\ pressed = "audio"
    /\ Cardinality(Range(tids) \ Range(playlist_tids)) > K
    /\ Len(page.recs) = K
    /\ Log # <<>> /\ Log[Len(Log)].recommendations = page.recs

\* C2: no track of the selected playlist is ever displayed or logged as a
\* recommendation, by either button.
C2_NoPlaylistTrackRecommended ==
    /\ page.shown => Range(page.recs) \cap Range(test_playlists[playlist_idx]) = {}
    /\ \A i \in 1..Len(Log) :
          Range(Log[i].recommendations) \cap Range(test_playlists[Log[i].playlist]) = {}

NoUsableSeed ==
    \/ pressed = "cf" /\ playlist_tids = <<>>
    \/ pressed = "audio" /\ Range(playlist_tids) \cap Range(tids) = {}

Failed ==
    \/ pressed = "cf" /\ "cf_failed" \in page.messages
    \/ pressed = "audio" /\ "audio_failed" \in page.messages

\* C3: a press with no usable seed left after filtering reports a failure,
\* displays no ranking, appends nothing to the log and does not stop the
\* session.
C3_EmptySeedFailsExplicitly ==
    [][NoUsableSeed' => /\ Failed'
                        /\ ~page'.shown
                        /\ page'.recs = <<>>
                        /\ Log' = Log
                        /\ ~page'.stopped
                        /\ "log" \in DOMAIN session_state']_vars

\* A failed CF press in a session that already holds log entries.
C3_Witness ==
    /\ pressed = "cf" /\ playlist_tids = <<>>
    /\ "cf_failed" \in page.messages
    /\ Len(Log) > 0

\* C4: whenever the script has built the index maps, tid_to_idx and idx_to_tid
\* are mutually inverse bijections between the distinct training tids and
\* 0..n-1, no tid that occurs only in a test playlist has an index, and every
\* seed handed to CF scoring is in tid_to_idx.
C4_IndexMapsBijective ==
    ~page.stopped =>
        LET trained == Range(Flatten(train_playlists))
            n == Cardinality(trained)
        IN /\ DOMAIN tid_to_idx = trained
           /\ DOMAIN idx_to_tid = 0..(n - 1)
           /\ \A t \in trained : tid_to_idx[t] \in 0..(n - 1) /\ idx_to_tid[tid_to_idx[t]] = t
           /\ \A i \in 0..(n - 1) : idx_to_tid[i] \in trained /\ tid_to_idx[idx_to_tid[i]] = i
           /\ \A k \in DOMAIN test_playlists :
                 \A t \in Range(test_playlists[k]) \ trained : t \notin DOMAIN tid_to_idx
           /\ Range(playlist_tids) \subseteq DOMAIN tid_to_idx

\* A CF ranking shown for a playlist with a track unknown to the training
\* collection, the training collection repeating a track.
C4_Witness ==
    /\ pressed = "cf" /\ page.shown
    /\ \E t \in Range(test_playlists[playlist_idx]) : t \notin DOMAIN tid_to_idx
    /\ Len(Flatten(train_playlists)) > Cardinality(DOMAIN tid_to_idx)

\* C5: two presses of the same button for the same playlist in one process
\* display the same ranked list.
C5_Deterministic ==
    \A i, j \in 1..Len(Log) :
        (Log[i].playlist = Log[j].playlist /\ Log[i].method = Log[j].method)
            => Log[i].recommendations = Log[j].recommendations

\* The same CF request served twice, with another request in between.
C5_Witness ==
    \E i, j \in 1..Len(Log) :
        /\ i + 1 < j
        /\ Log[i].method = CF /\ Log[j].method = CF
        /\ Log[i].playlist = Log[j].playlist
        /\ Len(Log[i].recommendations) = K
        /\ Cardinality(Range(Flatten(train_playlists))) > K

\* C6: the audio query vector is the equal-weight mean over the distinct
\* tracks of the selected playlist that have an audio embedding, whether or
\* not they have a CF index.
C6_QueryIsMeanOfEmbeddedTracks ==
    pressed = "audio" =>
        LET Known(t) == t \in Range(tids)
            seeds == Dedup(SelectSeq(test_playlists[playlist_idx], Known))
            sum == SumVecs(seeds)
        IN /\ playlist_embedding.ok <=> seeds # <<>>
           /\ playlist_embedding.ok =>
                 /\ playlist_embedding.sum[1] * Len(seeds) = sum[1] * playlist_embedding.n
                 /\ playlist_embedding.sum[2] * Len(seeds) = sum[2] * playlist_embedding.n

\* C7: when a recommendation is requested, every track of the selected
\* playlist that is excluded for lack of a CF index or of an audio embedding
\* is named in a warning, and no call fails while a usable seed remains.
C7_UnknownTrackWarned ==
    ~page.stopped =>
        /\ pressed \in {"cf", "audio"} =>
              \A t \in Range(test_playlists[playlist_idx]) :
                  (t \notin DOMAIN tid_to_idx \/ t \notin Range(tids))
                      => t \in Range(page.warning)
        /\ (pressed = "cf" /\ FilteredSeeds(playlist_idx) # {})
              => "cf_failed" \notin page.messages
        /\ (pressed = "audio" /\ EmbeddedTracks(playlist_idx) # {})
              => "audio_failed" \notin page.messages

\* C8: a CF ranking displayed from a model that was never trained comes with a
\* notice that it is an untrained baseline.
C8_UntrainedSurfaced ==
    (page.shown /\ page.method = CF /\ \A key \in DOMAIN model_cache : ~model_cache[key].trained)
        => "untrained_baseline" \in page.messages

\* What a CF press shows.
CFView(p) == [shown |-> p.shown, recs |-> p.recs, failed |-> "cf_failed" \in p.messages]

OtherStoreView(dir, emb) ==
    CFView(Script(session_state, model_cache', playlist_idx', "cf", 1,
                  train_playlists, dir, emb.embedding_matrix, emb.tids).page)

\* C9: the outcome of a CF press is the same whatever the embedding
\* directory holds, an empty directory included.
C9_CFIndependentOfEmbeddings ==
    [][pressed' = "cf" =>
          \A dir \in DirOptions : OtherStoreView(dir, load_embeddings(dir)) = CFView(page')]_vars

\* C10: the log starts empty and is never reset; a step that displays a
\* ranking appends exactly one entry with the selected playlist, the method
\* and the displayed list; every other step leaves the log unchanged.
C10_LogAppendOnly ==
    /\ Log = <<>>
    /\ [][IF page'.shown
          THEN Log' = Append(Log, [playlist |-> playlist_idx', method |-> page'.method,
                                   recommendations |-> page'.recs])
          ELSE Log' = Log]_vars

\* A rerun and a failed press after two successful presses of different
\* methods: the entries are still there.
C10_Witness ==
    /\ Len(Log) = 2
    /\ Log[1].method # Log[2].method
    /\ pressed = "audio" /\ "audio_failed" \in page.messages

====
